---------------------------- MODULE Spec2Model ----------------------------
(***************************************************************************)
(* Shape-level model of mnasnet.py: the modules ConvBNReLU,                *)
(* SqueezeExcitation, MBConvBlock and MnasNetA1, the helper numel and the  *)
(* driver main.  A tensor is modelled by its shape, a module by the record *)
(* of its constructor arguments and children, a forward pass by the shape  *)
(* arithmetic of the layers it calls.  A width multiplier is the rational  *)
(* wn / WDen; WDen is a power of two, so that c * width_mult is exact in   *)
(* binary floating point and int() truncates the exact product.            *)
(***************************************************************************)
EXTENDS Integers, Sequences, FiniteSets

VARIABLES pc, args, m, x, y, n

vars == <<pc, args, m, x, y, n>>

(* ------------------------------ bounds -------------------------------- *)

WDen == 64
MaxWNum == 96
WStep == 16
MaxClasses == 2
MaxBatch == 2
MaxH == 420
MaxPlanes == 4
MaxStride == 3
MaxKernel == 7
MaxSide == 3

(* ------------------------ values and tensors -------------------------- *)

NoError == "none"

Tensor(shape) == [err |-> NoError, shape |-> shape, expr |-> "x"]

Raise(e) == [err |-> e, shape |-> <<>>, expr |-> "raise"]

NoTensor == [err |-> NoError, shape |-> <<>>, expr |-> "unset"]

NoModule == [type |-> "None"]

Raised(e) == [type |-> "Raised", err |-> e]

Max(a, b) == IF a >= b THEN a ELSE b

RECURSIVE Prod(_)
Prod(s) == IF s = <<>> THEN 1 ELSE Head(s) * Prod(Tail(s))

(* ------------------------- framework layers --------------------------- *)

\* nn.Conv2d(in, out, k, stride, padding, groups, bias): the constructor
\* rejects a group count that is not positive or does not divide the channels.
Conv2d(in_channels, out_channels, kernel_size, stride, padding, groups, bias) ==
    IF groups <= 0 \/ in_channels % groups # 0 \/ out_channels % groups # 0
    THEN Raised("ValueError")
    ELSE [type |-> "Conv2d", in_channels |-> in_channels, out_channels |-> out_channels,
          kernel_size |-> kernel_size, stride |-> stride, padding |-> padding,
          groups |-> groups, bias |-> bias]

BatchNorm2d(num_features) == [type |-> "BatchNorm2d", num_features |-> num_features]

ReLU == [type |-> "ReLU"]

Sigmoid == [type |-> "Sigmoid"]

AdaptiveAvgPool2d(output_size) == [type |-> "AdaptiveAvgPool2d", output_size |-> output_size]

AvgPool2d(kernel_size) == [type |-> "AvgPool2d", kernel_size |-> kernel_size]

Dropout == [type |-> "Dropout"]

Linear(in_features, out_features) ==
    [type |-> "Linear", in_features |-> in_features, out_features |-> out_features]

\* A constructor that receives a child whose constructor raised raises too.
AnyRaised(children) == \E i \in 1..Len(children) : children[i].type = "Raised"

FirstRaised(children) ==
    children[CHOOSE i \in 1..Len(children) :
                /\ children[i].type = "Raised"
                /\ \A j \in 1..(i - 1) : children[j].type # "Raised"]

\* Output extent of a convolution or pooling window along one axis.
ConvOut(size, kernel_size, stride, padding) ==
    ((size + 2 * padding - kernel_size) \div stride) + 1

Conv2dForward(l, t) ==
    IF l.stride <= 0 \/ t.shape[2] # l.in_channels
       \/ t.shape[3] + 2 * l.padding < l.kernel_size
       \/ t.shape[4] + 2 * l.padding < l.kernel_size
    THEN Raise("RuntimeError")
    ELSE Tensor(<<t.shape[1], l.out_channels,
                  ConvOut(t.shape[3], l.kernel_size, l.stride, l.padding),
                  ConvOut(t.shape[4], l.kernel_size, l.stride, l.padding)>>)

BatchNorm2dForward(l, t) ==
    IF t.shape[2] # l.num_features THEN Raise("RuntimeError") ELSE t

AdaptiveAvgPool2dForward(l, t) ==
    Tensor(<<t.shape[1], t.shape[2], l.output_size, l.output_size>>)

\* Variant: the pool averages over the whole feature map, whatever its size.
AvgPool2dForwardGlobal(l, t) == Tensor(<<t.shape[1], t.shape[2], 1, 1>>)

AvgPool2dForward(l, t) ==
    IF t.shape[3] < l.kernel_size \/ t.shape[4] < l.kernel_size
    THEN Raise("RuntimeError")
    ELSE Tensor(<<t.shape[1], t.shape[2],
                  ConvOut(t.shape[3], l.kernel_size, l.kernel_size, 0),
                  ConvOut(t.shape[4], l.kernel_size, l.kernel_size, 0)>>)

LinearForward(l, t) ==
    IF t.shape[Len(t.shape)] # l.in_features
    THEN Raise("RuntimeError")
    ELSE Tensor(SubSeq(t.shape, 1, Len(t.shape) - 1) \o <<l.out_features>>)

\* x.view(x.size(0), -1)
View(t) == Tensor(<<t.shape[1], Prod(Tail(t.shape))>>)

\* Shape of a * b and of a + b under broadcasting of equal-rank operands.
Broadcast(a, b) ==
    IF \A i \in 1..Len(a.shape) :
           a.shape[i] = b.shape[i] \/ a.shape[i] = 1 \/ b.shape[i] = 1
    THEN Tensor([i \in 1..Len(a.shape) |-> Max(a.shape[i], b.shape[i])])
    ELSE Raise("RuntimeError")

(* --------------------------- ConvBNReLU ------------------------------- *)

\* Variant: no padding.
PaddingNone(kernel_size) == 0

\* Variant: the padding of a 3x3 kernel for every kernel size.
PaddingOne(kernel_size) == 1

Padding(kernel_size) == (kernel_size - 1) \div 2

ConvBNReLU(in_planes, out_planes, kernel_size, stride, groups) ==
    LET children == <<Conv2d(in_planes, out_planes, kernel_size, stride,
                             Padding(kernel_size), groups, FALSE),
                      BatchNorm2d(out_planes),
                      ReLU>>
    IN  IF AnyRaised(children) THEN FirstRaised(children)
        ELSE [type |-> "ConvBNReLU", children |-> children]

(* ------------------------- SqueezeExcitation -------------------------- *)

SqueezeExcitation(num_features, reduced_dim) ==
    LET se == <<AdaptiveAvgPool2d(1),
                Conv2d(num_features, reduced_dim, 1, 1, 0, 1, TRUE),
                ReLU,
                Conv2d(reduced_dim, num_features, 1, 1, 0, 1, TRUE),
                Sigmoid>>
    IN  IF AnyRaised(se) THEN FirstRaised(se)
        ELSE [type |-> "SqueezeExcitation", children |-> se]

(* ---------------------------- MBConvBlock ----------------------------- *)

\* Variant: the no_skip flag is ignored.
UseResidualNoFlag(in_planes, out_planes, stride, no_skip) ==
    in_planes = out_planes /\ stride = 1

UseResidual(in_planes, out_planes, stride, no_skip) ==
    in_planes = out_planes /\ stride = 1 /\ ~no_skip

\* Variant: the kernel size is not asserted.
AssertsHoldStrideOnly(stride, kernel_size) == stride \in {1, 2}

AssertsHold(stride, kernel_size) == stride \in {1, 2} /\ kernel_size \in {3, 5}

HiddenDim(in_planes, expand_ratio) == in_planes * expand_ratio

\* Variant: the reduced dimension is not clamped to 1.
ReducedDimUnclamped(in_planes, reduction_ratio) == in_planes \div reduction_ratio

ReducedDim(in_planes, reduction_ratio) == Max(1, in_planes \div reduction_ratio)

MBConvLayers(in_planes, out_planes, stride, expand_ratio, kernel_size, reduction_ratio) ==
    LET hidden_dim == HiddenDim(in_planes, expand_ratio)
        pw == IF in_planes # hidden_dim
              THEN <<ConvBNReLU(in_planes, hidden_dim, 1, 1, 1)>>
              ELSE <<>>
        dw == <<ConvBNReLU(hidden_dim, hidden_dim, kernel_size, stride, hidden_dim)>>
        se == IF reduction_ratio # 1
              THEN <<SqueezeExcitation(hidden_dim, ReducedDim(in_planes, reduction_ratio))>>
              ELSE <<>>
        pwl == <<Conv2d(hidden_dim, out_planes, 1, 1, 0, 1, FALSE),
                 BatchNorm2d(out_planes)>>
    IN  pw \o dw \o se \o pwl

MBConvBlock(in_planes, out_planes, stride, expand_ratio, kernel_size, reduction_ratio, no_skip) ==
    IF ~AssertsHold(stride, kernel_size) THEN Raised("AssertionError")
    ELSE LET layers == MBConvLayers(in_planes, out_planes, stride, expand_ratio,
                                    kernel_size, reduction_ratio)
         IN  IF AnyRaised(layers) THEN FirstRaised(layers)
             ELSE [type |-> "MBConvBlock",
                   use_residual |-> UseResidual(in_planes, out_planes, stride, no_skip),
                   children |-> layers]

(* ------------------------------ forward ------------------------------- *)

RECURSIVE Forward(_, _)
RECURSIVE SeqForward(_, _)

\* nn.Sequential: each child is applied to the previous child's result; an
\* exception raised by a child ends the pass.
SeqForward(children, t) ==
    IF children = <<>> \/ t.err # NoError THEN t
    ELSE SeqForward(Tail(children), Forward(Head(children), t))

SqueezeExcitationForward(l, t) ==
    LET g == SeqForward(l.children, t)
    IN  IF g.err # NoError THEN g ELSE Broadcast(t, g)

MBConvBlockForward(l, t) ==
    LET c == SeqForward(l.children, t)
    IN  IF c.err # NoError THEN c
        ELSE IF l.use_residual
             THEN [Broadcast(t, c) EXCEPT !.expr = "x + conv(x)"]
             ELSE [c EXCEPT !.expr = "conv(x)"]

Forward(l, t) ==
    CASE l.type = "Conv2d" -> Conv2dForward(l, t)
      [] l.type = "BatchNorm2d" -> BatchNorm2dForward(l, t)
      [] l.type = "AdaptiveAvgPool2d" -> AdaptiveAvgPool2dForward(l, t)
      [] l.type = "AvgPool2d" -> AvgPool2dForward(l, t)
      [] l.type = "Linear" -> LinearForward(l, t)
      [] l.type \in {"ReLU", "Sigmoid", "Dropout"} -> t
      [] l.type = "ConvBNReLU" -> SeqForward(l.children, t)
      [] l.type = "SqueezeExcitation" -> SqueezeExcitationForward(l, t)
      [] l.type = "MBConvBlock" -> MBConvBlockForward(l, t)

(* ----------------------------- MnasNetA1 ------------------------------ *)

\* t, c, n, s, k, r
settings ==
    << [t |-> 1, c |-> 16,  n |-> 1, s |-> 1, k |-> 3, r |-> 1],
       [t |-> 6, c |-> 24,  n |-> 2, s |-> 2, k |-> 3, r |-> 1],
       [t |-> 3, c |-> 40,  n |-> 3, s |-> 2, k |-> 5, r |-> 4],
       [t |-> 6, c |-> 80,  n |-> 4, s |-> 2, k |-> 3, r |-> 1],
       [t |-> 6, c |-> 112, n |-> 2, s |-> 1, k |-> 3, r |-> 4],
       [t |-> 6, c |-> 160, n |-> 3, s |-> 2, k |-> 5, r |-> 4],
       [t |-> 6, c |-> 320, n |-> 1, s |-> 1, k |-> 3, r |-> 1] >>

StemPlanes == 32

HeadPlanes == 1280

PoolKernel == 7

\* Variant: the remainder of the scaled channel count instead of its integer part.
ScaleRemainder(c, wn) == (c * wn) % WDen

\* Variant: a scaled channel count is raised to at least 1.
ScaleAtLeastOne(c, wn) == Max(1, (c * wn) \div WDen)

\* int(c * width_mult) for width_mult = wn / WDen
Scale(c, wn) == (c * wn) \div WDen

\* no_skip = True if i == 0 else False (stages are numbered from 1 here)
NoSkip(i) == i = 1

\* Variant: every repetition takes the stage's stride.
RepStrideAlways(s, j) == s

\* stride = s if j == 0 else 1
RepStride(s, j) == IF j = 0 THEN s ELSE 1

\* Variant: in_channels is not updated after a block.
NextInChannelsStale(in_channels, out_channels) == in_channels

\* in_channels = out_channels, at the end of the inner loop's body
NextInChannels(in_channels, out_channels) == out_channels

\* The two nested loops over settings and range(n), from stage i and
\* repetition j on: the blocks appended and the final in_channels.
RECURSIVE Stages(_, _, _, _)
Stages(i, j, in_channels, wn) ==
    IF i > Len(settings) THEN [features |-> <<>>, in_channels |-> in_channels]
    ELSE IF j >= settings[i].n THEN Stages(i + 1, 0, in_channels, wn)
    ELSE LET st == settings[i]
             out_channels == Scale(st.c, wn)
             block == MBConvBlock(in_channels, out_channels, RepStride(st.s, j),
                                  st.t, st.k, st.r, NoSkip(i))
             rest == Stages(i, j + 1, NextInChannels(in_channels, out_channels), wn)
         IN  [features |-> <<block>> \o rest.features, in_channels |-> rest.in_channels]

MnasNetA1(wn, num_classes) ==
    LET stem == ConvBNReLU(3, Scale(StemPlanes, wn), 3, 2, 1)
        body == Stages(1, 0, Scale(StemPlanes, wn), wn)
        head == ConvBNReLU(body.in_channels, HeadPlanes, 1, 1, 1)
        features == <<stem>> \o body.features \o <<head>>
    IN  IF AnyRaised(features) THEN FirstRaised(features)
        ELSE [type |-> "MnasNetA1",
              features |-> features,
              avg_pool |-> AvgPool2d(PoolKernel),
              classifier |-> <<Dropout, Linear(HeadPlanes, num_classes)>>]

MnasNetA1Forward(net, t) ==
    LET f == SeqForward(net.features, t)
        p == IF f.err # NoError THEN f ELSE Forward(net.avg_pool, f)
        v == IF p.err # NoError THEN p ELSE View(p)
    IN  IF v.err # NoError THEN v ELSE SeqForward(net.classifier, v)

(* ------------------------------- numel -------------------------------- *)

RECURSIVE Parameters(_)
RECURSIVE SeqParameters(_)

SeqParameters(children) ==
    IF children = <<>> THEN 0
    ELSE Parameters(Head(children)) + SeqParameters(Tail(children))

\* Sum of p.numel() over the learnable parameters of a module.
Parameters(l) ==
    CASE l.type = "Conv2d" ->
             l.out_channels * (l.in_channels \div l.groups) * l.kernel_size * l.kernel_size
             + (IF l.bias THEN l.out_channels ELSE 0)
      [] l.type = "BatchNorm2d" -> 2 * l.num_features
      [] l.type = "Linear" -> l.in_features * l.out_features + l.out_features
      [] l.type \in {"ReLU", "Sigmoid", "Dropout", "AdaptiveAvgPool2d", "AvgPool2d"} -> 0
      [] l.type \in {"ConvBNReLU", "SqueezeExcitation", "MBConvBlock"} ->
             SeqParameters(l.children)
      [] l.type = "MnasNetA1" ->
             SeqParameters(l.features) + Parameters(l.avg_pool) + SeqParameters(l.classifier)

numel(model) == Parameters(model)

(* --------------------------- input domains ---------------------------- *)

\* Width multipliers wn / WDen: a fine grid for construction and counting,
\* and a coarse one (with 1.0) for the forward passes.
WidthNums == 0..MaxWNum

ForwardWidthNums == {wn \in WidthNums : wn % WStep = 0} \cup {WDen}

ClassCounts == (1..MaxClasses) \cup {1000}

Batches == 1..MaxBatch

Sizes == 1..MaxH

Planes == 1..MaxPlanes

Strides == 0..MaxStride

Kernels == 1..MaxKernel

ExpandRatios == {1, 3, 6}

ReductionRatios == {1, 2, 4}

Sides == 1..MaxSide

(* ------------------------------ actions ------------------------------- *)

Init ==
    /\ pc = "start"
    /\ args = [kind |-> "none"]
    /\ m = NoModule
    /\ x = NoTensor
    /\ y = NoTensor
    /\ n = -1

\* m = MnasNetA1(width_mult, num_classes)
NetInit(wn, num_classes) ==
    /\ pc = "start"
    /\ args' = [kind |-> "MnasNetA1", wn |-> wn, num_classes |-> num_classes]
    /\ m' = MnasNetA1(wn, num_classes)
    /\ pc' = IF m'.type = "Raised" THEN "raised" ELSE "built"
    /\ UNCHANGED <<x, y, n>>

\* y = m(x) for x of shape (b, 3, h, h)
NetForward(b, h) ==
    /\ pc = "built"
    /\ m.type = "MnasNetA1"
    /\ x' = Tensor(<<b, 3, h, h>>)
    /\ y' = MnasNetA1Forward(m, x')
    /\ pc' = IF y'.err # NoError THEN "raised" ELSE "forwarded"
    /\ UNCHANGED <<args, m, n>>

\* numel(m)
Numel ==
    /\ pc \in {"built", "forwarded"}
    /\ m.type = "MnasNetA1"
    /\ n = -1
    /\ n' = numel(m)
    /\ UNCHANGED <<pc, args, m, x, y>>

\* MBConvBlock(in_planes, out_planes, stride, expand_ratio, kernel_size,
\*             reduction_ratio, no_skip)
BlockInit(in_planes, out_planes, stride, expand_ratio, kernel_size, reduction_ratio, no_skip) ==
    /\ pc = "start"
    /\ args' = [kind |-> "MBConvBlock", in_planes |-> in_planes, out_planes |-> out_planes,
                 stride |-> stride, expand_ratio |-> expand_ratio,
                 kernel_size |-> kernel_size, reduction_ratio |-> reduction_ratio,
                 no_skip |-> no_skip]
    /\ m' = MBConvBlock(in_planes, out_planes, stride, expand_ratio, kernel_size,
                         reduction_ratio, no_skip)
    /\ pc' = IF m'.type = "Raised" THEN "raised" ELSE "built"
    /\ UNCHANGED <<x, y, n>>

\* block(x) for x of shape (b, in_planes, h, w).  A block that was called may
\* be called again; the later call repeats the input, which keeps the model
\* finite without a call counter.
BlockForward(b, h, w) ==
    /\ m.type = "MBConvBlock"
    /\ \/ pc = "built"
       \/ pc = "called" /\ x.shape = <<b, args.in_planes, h, w>>
    /\ x' = Tensor(<<b, args.in_planes, h, w>>)
    /\ y' = Forward(m, x')
    /\ pc' = IF y'.err # NoError THEN "raised"
             ELSE IF pc = "built" THEN "called" ELSE "called_again"
    /\ UNCHANGED <<args, m, n>>

\* construction and one forward pass, for any width multiplier, class count
\* and square input
Next ==
    \/ pc = "start" /\ \E wn \in ForwardWidthNums, k \in ClassCounts : NetInit(wn, k)
    \/ pc = "built" /\ \E b \in Batches, h \in Sizes : NetForward(b, h)

Spec == Init /\ [][Next]_vars

\* construction and parameter count over the fine grid of width multipliers
BuildNext ==
    \/ pc = "start" /\ \E wn \in WidthNums, k \in ClassCounts : NetInit(wn, k)
    \/ Numel

BuildSpec == Init /\ [][BuildNext]_vars

\* one block, any constructor arguments, any input
BlockNext ==
    \/ /\ pc = "start"
       /\ \E i \in Planes, o \in Planes, s \in Strides, t \in ExpandRatios,
             k \in Kernels, r \in ReductionRatios, ns \in BOOLEAN :
             BlockInit(i, o, s, t, k, r, ns)
    \/ /\ pc \in {"built", "called"}
       /\ \E b \in Batches, h \in Sides, w \in Sides : BlockForward(b, h, w)

BlockSpec == Init /\ [][BlockNext]_vars

(* ---------------------- observers of built modules -------------------- *)

RECURSIVE InChannels(_)
\* Channel count a module declares for its input.
InChannels(l) ==
    CASE l.type = "Conv2d" -> l.in_channels
      [] l.type = "BatchNorm2d" -> l.num_features
      [] l.type = "SqueezeExcitation" -> l.children[2].in_channels
      [] l.type \in {"ConvBNReLU", "MBConvBlock"} -> InChannels(l.children[1])

RECURSIVE OutChannels(_)
\* Channel count a module declares for its output.
OutChannels(l) ==
    CASE l.type = "Conv2d" -> l.out_channels
      [] l.type = "BatchNorm2d" -> l.num_features
      [] l.type = "SqueezeExcitation" -> l.children[4].out_channels
      [] l.type = "ConvBNReLU" -> l.children[2].num_features
      [] l.type = "MBConvBlock" -> OutChannels(l.children[Len(l.children)])

RECURSIVE Stride(_)
RECURSIVE SeqStride(_)

SeqStride(children) ==
    IF children = <<>> THEN 1 ELSE Stride(Head(children)) * SeqStride(Tail(children))

\* Spatial reduction factor of a module: the product of its convolutions' strides.
Stride(l) ==
    CASE l.type = "Conv2d" -> l.stride
      [] l.type \in {"ConvBNReLU", "MBConvBlock"} -> SeqStride(l.children)
      [] OTHER -> 1

RECURSIVE Repeats(_)
\* Number of blocks of the first i stages.
Repeats(i) == IF i = 0 THEN 0 ELSE settings[i].n + Repeats(i - 1)

\* Index in features of repetition j (from 0) of stage i (from 1); the stem is 1.
BlockIndex(i, j) == 1 + Repeats(i - 1) + j + 1

IsNet == args.kind = "MnasNetA1" /\ m.type = "MnasNetA1"

IsBlock == args.kind = "MBConvBlock" /\ m.type = "MBConvBlock"

(* ------------------- claims about the forward pass -------------------- *)

Called == IsNet /\ pc \in {"forwarded", "raised"} /\ x # NoTensor

\* C1: MnasNetA1 of width multiplier 1.0 and K classes maps an input
\* (B, 3, 224, 224), B >= 1, to an output (B, K), through the stem, 16 MBConv
\* blocks and the head, then the 7x7 average pool, flatten and the classifier:
\* no layer raises, every element of features receives the channel count it
\* declares, the feature map entering the pool is (B, 1280, 7, 7), the pooled
\* map is (B, 1280, 1, 1) and the flattened one (B, 1280).
C1_CanonicalForward ==
    (Called /\ args.wn = WDen /\ x.shape[3] = 224) =>
        LET f == SeqForward(m.features, x)
            p == Forward(m.avg_pool, f)
        IN  /\ pc = "forwarded"
            /\ y.err = NoError
            /\ y.shape = <<x.shape[1], args.num_classes>>
            /\ Len(m.features) = 18
            /\ Cardinality({i \in 1..18 : m.features[i].type = "MBConvBlock"}) = 16
            /\ m.features[1].type = "ConvBNReLU" /\ m.features[18].type = "ConvBNReLU"
            /\ \A i \in 1..18 :
                   LET t == SeqForward(SubSeq(m.features, 1, i - 1), x)
                   IN  t.err = NoError /\ t.shape[2] = InChannels(m.features[i])
            /\ f.shape = <<x.shape[1], 1280, 7, 7>>
            /\ p.shape = <<x.shape[1], 1280, 1, 1>>
            /\ View(p).shape = <<x.shape[1], 1280>>

C1_Witness ==
    /\ pc = "forwarded"
    /\ args.wn = WDen /\ args.num_classes = 1000
    /\ x.shape = <<1, 3, 224, 224>>
    /\ y.err = NoError /\ y.shape = <<1, 1000>>

Residual == args.in_planes = args.out_planes /\ args.stride = 1 /\ ~args.no_skip

\* C3: MBConvBlock with a stride outside {1, 2} or a kernel size outside
\* {3, 5} raises AssertionError in the constructor: no layer is built, no
\* block is returned and no forward pass ever runs on it; with stride in
\* {1, 2} and kernel size in {3, 5} the constructor never raises it.
C3_AssertAtConstruction ==
    (args.kind = "MBConvBlock" /\ pc # "start") =>
        IF args.stride \notin {1, 2} \/ args.kernel_size \notin {3, 5}
        THEN /\ pc = "raised"
             /\ m = Raised("AssertionError")
             /\ x = NoTensor /\ y = NoTensor
        ELSE m.type # "Raised" /\ m.type = "MBConvBlock"

C3_Witness ==
    /\ pc = "raised"
    /\ args.kind = "MBConvBlock"
    /\ args.stride \in {1, 2} /\ args.kernel_size = 7
    /\ m = Raised("AssertionError")

\* C4: forward of a constructed MBConvBlock returns x + conv(x) if and only
\* if in_planes = out_planes, stride = 1 and no_skip is false, and conv(x)
\* alone otherwise; use_residual holds that decision from construction on and
\* every call, the first and a later one, follows it.
C4_ResidualIff ==
    IsBlock =>
        /\ m.use_residual <=> Residual
        /\ pc \in {"called", "called_again"} =>
               /\ y.expr = "x + conv(x)" <=> Residual
               /\ y.expr = "conv(x)" <=> ~Residual

C4_Witness ==
    /\ IsBlock /\ pc = "called_again"
    /\ Residual
    /\ y.expr = "x + conv(x)"

\* C8: the layers of a block are, in order: a pointwise ConvBNReLU
\* in_planes -> hidden_dim iff hidden_dim = int(in_planes * expand_ratio)
\* differs from in_planes; a depthwise ConvBNReLU hidden_dim -> hidden_dim
\* with the given kernel size and stride and groups = hidden_dim; a
\* SqueezeExcitation over hidden_dim features iff reduction_ratio # 1, with
\* reduced dimension max(1, int(in_planes / reduction_ratio)); a 1x1
\* convolution hidden_dim -> out_planes; a BatchNorm2d over out_planes, last.
C8_LayerSequence ==
    IsBlock =>
        LET hidden == args.in_planes * args.expand_ratio
            hasPw == hidden # args.in_planes
            hasSe == args.reduction_ratio # 1
            iDw == IF hasPw THEN 2 ELSE 1
            iPwl == iDw + (IF hasSe THEN 2 ELSE 1)
            c == m.children
            dw == c[iDw].children[1]
        IN  /\ Len(c) = iPwl + 1
            /\ hasPw => /\ c[1].type = "ConvBNReLU"
                        /\ c[1].children[1].kernel_size = 1
                        /\ c[1].children[1].stride = 1
                        /\ c[1].children[1].groups = 1
                        /\ InChannels(c[1]) = args.in_planes
                        /\ OutChannels(c[1]) = hidden
            /\ c[iDw].type = "ConvBNReLU"
            /\ dw.in_channels = hidden /\ dw.out_channels = hidden
            /\ dw.groups = hidden
            /\ dw.kernel_size = args.kernel_size /\ dw.stride = args.stride
            /\ hasSe => /\ c[iDw + 1].type = "SqueezeExcitation"
                        /\ InChannels(c[iDw + 1]) = hidden
                        /\ OutChannels(c[iDw + 1]) = hidden
                        /\ c[iDw + 1].children[2].out_channels
                               = Max(1, args.in_planes \div args.reduction_ratio)
                        /\ c[iDw + 1].children[4].in_channels
                               = Max(1, args.in_planes \div args.reduction_ratio)
            /\ c[iPwl].type = "Conv2d"
            /\ c[iPwl].kernel_size = 1 /\ c[iPwl].stride = 1
            /\ c[iPwl].in_channels = hidden /\ c[iPwl].out_channels = args.out_planes
            /\ c[iPwl + 1] = BatchNorm2d(args.out_planes)

C8_Witness ==
    /\ IsBlock /\ pc = "built"
    /\ args.in_planes = 3 /\ args.expand_ratio = 6 /\ args.reduction_ratio = 4
    /\ Len(m.children) = 5
    /\ m.children[3].children[2].out_channels = 1
    /\ m.children[3].children[2].in_channels = 18

AllPositive(wn) ==
    /\ (StemPlanes * wn) \div WDen >= 1
    /\ \A i \in 1..Len(settings) : (settings[i].c * wn) \div WDen >= 1

\* C2: in the constructed features (stem, every block of every stage, head),
\* for every width multiplier, the output channel count of each element is
\* the declared input channel count of the next one, within a stage and
\* across stages, from the stem to the first block and from the last block
\* to the head.
C2_ChannelChaining ==
    (IsNet /\ pc = "built") =>
        /\ InChannels(m.features[1]) = 3
        /\ OutChannels(m.features[1]) = (StemPlanes * args.wn) \div WDen
        /\ \A i \in 1..(Len(m.features) - 1) :
               OutChannels(m.features[i]) = InChannels(m.features[i + 1])
        /\ \A i \in 1..Len(settings) : \A j \in 0..(settings[i].n - 1) :
               OutChannels(m.features[BlockIndex(i, j)])
                   = (settings[i].c * args.wn) \div WDen
        /\ OutChannels(m.features[Len(m.features)]) = 1280

C2_Witness ==
    /\ IsNet /\ pc = "built"
    /\ args.wn = 35
    /\ OutChannels(m.features[3]) = 13
    /\ InChannels(m.features[4]) = 13
    /\ InChannels(m.features[18]) = 175

\* C6: for width multipliers w1 <= w2 with every channel count at least 1,
\* the stem's and every stage's channel count under w1 is at most that under
\* w2, and numel(MnasNetA1(w1)) <= numel(MnasNetA1(w2)) for the same class
\* count.  Here w2 is the constructed and counted network, w1 any smaller
\* multiplier of the grid.
C6_WidthMonotone ==
    (IsNet /\ n # -1) =>
        \A w1 \in WidthNums :
            (w1 <= args.wn /\ AllPositive(w1)) =>
                /\ (StemPlanes * w1) \div WDen <= OutChannels(m.features[1])
                /\ \A i \in 1..Len(settings) :
                       (settings[i].c * w1) \div WDen
                           <= OutChannels(m.features[BlockIndex(i, 0)])
                /\ numel(MnasNetA1(w1, args.num_classes)) <= n

C6_Witness ==
    /\ IsNet /\ n = 3887038
    /\ args.wn = WDen /\ args.num_classes = 1000
    /\ \E w1 \in WidthNums :
           /\ w1 < args.wn /\ AllPositive(w1)
           /\ numel(MnasNetA1(w1, 1000)) < n

\* C7: in every stage only repetition 0 is built with the stage's stride;
\* every later repetition has stride 1 and its input channel count is the
\* stage's output channel count.  So exactly the stem and the first blocks of
\* the four stride-2 stages downsample, for a total reduction of 32.
C7_StrideFirstRepetition ==
    (IsNet /\ pc = "built") =>
        /\ \A i \in 1..Len(settings) : \A j \in 0..(settings[i].n - 1) :
               LET b == m.features[BlockIndex(i, j)]
               IN  /\ b.type = "MBConvBlock"
                   /\ Stride(b) = IF j = 0 THEN settings[i].s ELSE 1
                   /\ j >= 1 => InChannels(b) = OutChannels(b)
                   /\ j >= 1 => InChannels(b) = (settings[i].c * args.wn) \div WDen
        /\ {k \in 1..Len(m.features) : Stride(m.features[k]) # 1}
               = {1} \cup {BlockIndex(i, 0) : i \in {k \in 1..Len(settings) : settings[k].s = 2}}
        /\ Cardinality({i \in 1..Len(settings) : settings[i].s = 2}) = 4
        /\ \A k \in 1..Len(m.features) : Stride(m.features[k]) \in {1, 2}
        /\ SeqStride(m.features) = 32

C7_Witness ==
    /\ IsNet /\ pc = "built"
    /\ Stride(m.features[8]) = 2
    /\ Stride(m.features[9]) = 1 /\ Stride(m.features[11]) = 1
    /\ InChannels(m.features[8]) < InChannels(m.features[9])

\* C9 as stated: some width multiplier with positive channel counts makes
\* the stem's output channel count int(32 * w) equal to the first stage's
\* int(16 * w), so that without no_skip the first block would use the
\* residual shortcut: before the construction, some width multiplier of the
\* grid is such a one.
C9_FlagLoadBearing ==
    pc = "start" =>
        \E wn \in WidthNums :
            LET stem == Scale(StemPlanes, wn)
                out == Scale(settings[1].c, wn)
            IN  /\ AllPositive(wn)
                /\ stem = out
                /\ UseResidual(stem, out, RepStride(settings[1].s, 0), FALSE)

\* C9, amended: the no_skip flag of the first stage's block is redundant for
\* every width multiplier, not only for 1.0.  int(32 * w) = int(16 * w) only
\* when both are 0, and then the construction raises; in every constructed
\* network the stem has more channels than the first stage, at least twice
\* as many, so the first block would not use the residual shortcut with
\* no_skip false either.
C9_FlagRedundant ==
    args.kind = "MnasNetA1" =>
        LET stem == (StemPlanes * args.wn) \div WDen
            out == (settings[1].c * args.wn) \div WDen
        IN  /\ stem = out => (stem = 0 /\ pc = "raised" /\ m.type = "Raised")
            /\ m.type = "MnasNetA1" =>
                   /\ InChannels(m.features[2]) = stem
                   /\ OutChannels(m.features[2]) = out
                   /\ out >= 1 /\ stem >= 2 * out
                   /\ ~m.features[2].use_residual
                   /\ ~(InChannels(m.features[2]) = OutChannels(m.features[2])
                        /\ Stride(m.features[2]) = 1)

C9_Witness ==
    /\ IsNet /\ pc = "built"
    /\ args.wn < WDen
    /\ InChannels(m.features[2]) = 2
    /\ OutChannels(m.features[2]) = 1
    /\ ~m.features[2].use_residual

=============================================================================
